---- MODULE Spec2Model ----
(***************************************************************************)
(* Navigation tree builder, renderer and config merger of the CAMEL docs   *)
(* scripts build_api_docs.py and organize_modules.py.                      *)
(*                                                                         *)
(* A Python str is a tuple of one-character strings, so that split, stem,  *)
(* startswith and the code-point order used by sorted() are computed.      *)
(* A JSON value is a tagged record: Str, List, Dict (an ordered sequence   *)
(* of key/value items, as a Python dict keeps insertion order) or None.    *)
(***************************************************************************)
EXTENDS Integers, Sequences, FiniteSets, Bags, TLC

\* ------------------------------------------------------------------ bounds
\* at most this many .mdx files are found in the reference directory
MaxFiles == 3

\* ----------------------------------------------------------------- strings
\* the printable ASCII characters in code-point order, from chr(32); the grave
\* accent, chr(96), is written GRAVE
ASCII == <<" ","!","\"","#","$","%","&","'","(",")","*","+",",","-",".","/","0","1","2","3","4","5","6","7","8","9",":",";","<","=",">","?","@","A","B","C","D","E","F","G","H","I","J","K","L","M","N","O","P","Q","R","S","T","U","V","W","X","Y","Z","[","\\","]","^","_","GRAVE","a","b","c","d","e","f","g","h","i","j","k","l","m","n","o","p","q","r","s","t","u","v","w","x","y","z","{","|","}","~">>

\* Python ord() on the printable ASCII characters
ord == [c \in {ASCII[i] : i \in 1..Len(ASCII)} |->
           31 + (CHOOSE i \in 1..Len(ASCII) : ASCII[i] = c)]

\* Python chr() on 32..126
chr(n) == ASCII[n - 31]

\* str.__lt__: code-point lexicographic order, a proper prefix is smaller
StrLess(a, b) ==
    LET n == IF Len(a) < Len(b) THEN Len(a) ELSE Len(b)
        diff == {i \in 1..n : a[i] # b[i]}
    IN  IF diff = {} THEN Len(a) < Len(b)
        ELSE LET k == CHOOSE i \in diff : \A j \in diff : i <= j
             IN  ord[a[k]] < ord[b[k]]

\* str.startswith
startswith(s, prefix) ==
    Len(s) >= Len(prefix) /\ SubSeq(s, 1, Len(prefix)) = prefix

\* str.rfind of one character: the last index (from 1) holding c, 0 if none
rfind(s, c) ==
    LET at == {i \in 1..Len(s) : s[i] = c}
    IN  IF at = {} THEN 0 ELSE CHOOSE i \in at : \A j \in at : j <= i

\* str.split on a one-character separator
RECURSIVE split(_, _)
split(s, sep) ==
    LET at == {i \in 1..Len(s) : s[i] = sep}
    IN  IF at = {} THEN <<s>>
        ELSE LET k == CHOOSE i \in at : \A j \in at : i <= j
             IN  <<SubSeq(s, 1, k - 1)>> \o split(SubSeq(s, k + 1, Len(s)), sep)

\* str.replace of one character by another
replace(s, old, new) == [i \in 1..Len(s) |-> IF s[i] = old THEN new ELSE s[i]]

isupper(c) == ord[c] >= 65 /\ ord[c] <= 90
islower(c) == ord[c] >= 97 /\ ord[c] <= 122
upper(c) == IF islower(c) THEN chr(ord[c] - 32) ELSE c
lower(c) == IF isupper(c) THEN chr(ord[c] + 32) ELSE c

\* str.title: a letter after a non-letter is upper-cased, any other letter lower-cased
title(s) ==
    [i \in 1..Len(s) |->
        IF i = 1 \/ ~(isupper(s[i - 1]) \/ islower(s[i - 1]))
        THEN upper(s[i]) ELSE lower(s[i])]

\* pathlib PurePath.name: the text after the last /
PathName(p) == SubSeq(p, rfind(p, "/") + 1, Len(p))

\* pathlib PurePath.stem: the name without its last suffix; a name whose last
\* . is its first or its last character has no suffix
PathStem(p) ==
    LET name == PathName(p)
        i == rfind(name, ".")
    IN  IF 1 < i /\ i < Len(name) THEN SubSeq(name, 1, i - 1) ELSE name

\* mutant of sorted: the list is left in the order of insertion
sorted_as_inserted(pages) == pages

\* sorted() on a list of str
sorted(pages) == SortSeq(pages, StrLess)

\* the keys of a dict of str keys, in the order sorted(d.items()) visits them
RECURSIVE sorted_keys(_)
sorted_keys(S) ==
    IF S = {} THEN <<>>
    ELSE LET m == CHOOSE x \in S : \A y \in S : x = y \/ StrLess(x, y)
         IN  <<m>> \o sorted_keys(S \ {m})

\* -------------------------------------------------------------- JSON values
None == [t |-> "null"]
Str(s) == [t |-> "str", s |-> s]
List(e) == [t |-> "list", e |-> e]
Dict(items) == [t |-> "dict", items |-> items]
Item(k, v) == [k |-> k, v |-> v]

isinstance(x, type) == x.t = type

\* k in d
dict_has(d, k) == \E i \in 1..Len(d.items) : d.items[i].k = k

\* d.get(k, default)
dict_get(d, k, default) ==
    IF dict_has(d, k)
    THEN d.items[CHOOSE i \in 1..Len(d.items) : d.items[i].k = k].v
    ELSE default

\* d[k] = v: an existing key keeps its position, a new key goes last
dict_set(d, k, v) ==
    IF dict_has(d, k)
    THEN Dict([i \in 1..Len(d.items) |->
                  IF d.items[i].k = k THEN Item(k, v) ELSE d.items[i]])
    ELSE Dict(Append(d.items, Item(k, v)))

\* str == str on JSON values
str_eq(x, s) == isinstance(x, "str") /\ x.s = s

\* ------------------------------------------------------------------ tables
MODULE_NAME_DISPLAY ==
       (<<"a","g","e","n","t","s">> :> <<"A","g","e","n","t","s">>)
    @@ (<<"c","o","n","f","i","g","s">> :> <<"C","o","n","f","i","g","s">>)
    @@ (<<"d","a","t","a","g","e","n">> :> <<"D","a","t","a"," ","G","e","n","e","r","a","t","i","o","n">>)
    @@ (<<"d","a","t","a","s","e","t","s">> :> <<"D","a","t","a","s","e","t","s">>)
    @@ (<<"d","a","t","a","_","c","o","l","l","e","c","t","o","r">> :> <<"D","a","t","a"," ","C","o","l","l","e","c","t","o","r">>)
    @@ (<<"e","m","b","e","d","d","i","n","g","s">> :> <<"E","m","b","e","d","d","i","n","g","s">>)
    @@ (<<"e","n","v","i","r","o","n","m","e","n","t","s">> :> <<"E","n","v","i","r","o","n","m","e","n","t","s">>)
    @@ (<<"i","n","t","e","r","p","r","e","t","e","r","s">> :> <<"I","n","t","e","r","p","r","e","t","e","r","s">>)
    @@ (<<"l","o","a","d","e","r","s">> :> <<"L","o","a","d","e","r","s">>)
    @@ (<<"m","e","m","o","r","i","e","s">> :> <<"M","e","m","o","r","y">>)
    @@ (<<"m","e","s","s","a","g","e","s">> :> <<"M","e","s","s","a","g","e","s">>)
    @@ (<<"m","o","d","e","l","s">> :> <<"M","o","d","e","l","s">>)
    @@ (<<"p","r","o","m","p","t","s">> :> <<"P","r","o","m","p","t","s">>)
    @@ (<<"r","e","s","p","o","n","s","e","s">> :> <<"R","e","s","p","o","n","s","e","s">>)
    @@ (<<"r","e","t","r","i","e","v","e","r","s">> :> <<"R","e","t","r","i","e","v","e","r","s">>)
    @@ (<<"r","u","n","t","i","m","e">> :> <<"R","u","n","t","i","m","e">>)
    @@ (<<"s","c","h","e","m","a","s">> :> <<"S","c","h","e","m","a","s">>)
    @@ (<<"s","o","c","i","e","t","i","e","s">> :> <<"S","o","c","i","e","t","i","e","s">>)
    @@ (<<"s","t","o","r","a","g","e","s">> :> <<"S","t","o","r","a","g","e">>)
    @@ (<<"t","a","s","k","s">> :> <<"T","a","s","k","s">>)
    @@ (<<"t","e","r","m","i","n","a","t","o","r","s">> :> <<"T","e","r","m","i","n","a","t","o","r","s">>)
    @@ (<<"t","o","o","l","k","i","t","s">> :> <<"T","o","o","l","k","i","t","s">>)
    @@ (<<"t","y","p","e","s">> :> <<"T","y","p","e","s">>)
    @@ (<<"u","t","i","l","s">> :> <<"U","t","i","l","i","t","i","e","s">>)
    @@ (<<"v","e","r","i","f","i","e","r","s">> :> <<"V","e","r","i","f","i","e","r","s">>)
    @@ (<<"b","e","n","c","h","m","a","r","k","s">> :> <<"B","e","n","c","h","m","a","r","k","s">>)
    @@ (<<"b","o","t","s">> :> <<"B","o","t","s">>)
    @@ (<<"p","e","r","s","o","n","a","s">> :> <<"P","e","r","s","o","n","a","s">>)
    @@ (<<"e","x","t","r","a","c","t","o","r","s">> :> <<"E","x","t","r","a","c","t","o","r","s">>)

\* MODULE_ORDER of build_api_docs.py
MODULE_ORDER == <<
    <<"a","g","e","n","t","s">>,
    <<"c","o","n","f","i","g","s">>,
    <<"d","a","t","a","g","e","n">>,
    <<"d","a","t","a","s","e","t","s">>,
    <<"e","m","b","e","d","d","i","n","g","s">>,
    <<"m","o","d","e","l","s">>,
    <<"i","n","t","e","r","p","r","e","t","e","r","s">>,
    <<"m","e","m","o","r","i","e","s">>,
    <<"m","e","s","s","a","g","e","s">>,
    <<"p","r","o","m","p","t","s">>,
    <<"r","e","s","p","o","n","s","e","s">>,
    <<"r","e","t","r","i","e","v","e","r","s">>,
    <<"s","o","c","i","e","t","i","e","s">>,
    <<"s","t","o","r","a","g","e","s">>,
    <<"t","a","s","k","s">>,
    <<"t","e","r","m","i","n","a","t","o","r","s">>,
    <<"t","o","o","l","k","i","t","s">>,
    <<"t","y","p","e","s">>,
    <<"v","e","r","i","f","i","e","r","s">>,
    <<"b","o","t","s">>,
    <<"r","u","n","t","i","m","e">>,
    <<"u","t","i","l","s">>,
    <<"e","n","v","i","r","o","n","m","e","n","t","s">>,
    <<"e","x","t","r","a","c","t","o","r","s">>,
    <<"p","e","r","s","o","n","a","s">>
>>

\* MODULE_ORDER of organize_modules.py: the same list after a leading camel
MODULE_ORDER_om == <<<<"c","a","m","e","l">>>> \o MODULE_ORDER

\* get_module_display_name: the table entry, else snake_case turned to title case
get_module_display_name(module_name) ==
    IF module_name \in DOMAIN MODULE_NAME_DISPLAY
    THEN MODULE_NAME_DISPLAY[module_name]
    ELSE title(replace(module_name, "_", " "))

\* ------------------------------------------------------------- module tree
\* new_module_dict(): a node holds its pages and a dict of sub-nodes by name
new_module_dict == [pages |-> <<>>, submodules |-> <<>>]

\* mutant of tree_add: the directory page is appended like any other page
RECURSIVE tree_add_appending(_, _, _, _)
tree_add_appending(node, path, reference_path, directory_page) ==
    IF path = <<>>
    THEN [node EXCEPT !.pages = Append(@, reference_path)]
    ELSE LET part == Head(path)
             child == IF part \in DOMAIN node.submodules
                      THEN node.submodules[part]
                      ELSE new_module_dict
         IN  [node EXCEPT !.submodules =
                 (part :> tree_add_appending(child, Tail(path), reference_path, directory_page))
                     @@ @]

\* current = current[submodules][part] along `path` (a defaultdict creates the
\* missing nodes), then the insert or append of reference_path at the node reached
RECURSIVE tree_add(_, _, _, _)
tree_add(node, path, reference_path, directory_page) ==
    IF path = <<>>
    THEN [node EXCEPT !.pages = IF directory_page
                                THEN <<reference_path>> \o @
                                ELSE Append(@, reference_path)]
    ELSE LET part == Head(path)
             child == IF part \in DOMAIN node.submodules
                      THEN node.submodules[part]
                      ELSE new_module_dict
         IN  [node EXCEPT !.submodules =
                 (part :> tree_add(child, Tail(path), reference_path, directory_page)) @@ @]

\* one iteration of the loop of build_module_tree over mdx_files
build_module_tree_file(module_tree, file) ==
    LET module_path == PathStem(file)
        parts == split(module_path, ".")
        reference_path == <<"r","e","f","e","r","e","n","c","e","/">> \o module_path
    IN  IF ~startswith(module_path, <<"c","a","m","e","l",".">>) THEN module_tree
        ELSE IF Len(parts) = 1
        THEN [module_tree EXCEPT !.pages = Append(@, reference_path)]
        ELSE tree_add(module_tree, SubSeq(parts, 2, Len(parts) - 1), reference_path,
                      parts[Len(parts)] = parts[Len(parts) - 1])

\* build_module_tree on the files in the order given
RECURSIVE build_module_tree_from(_, _)
build_module_tree_from(module_tree, files) ==
    IF files = <<>> THEN module_tree
    ELSE build_module_tree_from(build_module_tree_file(module_tree, Head(files)), Tail(files))

build_module_tree(files) == build_module_tree_from(new_module_dict, files)

\* --------------------------------------------------------------- rendering
\* camel in [Path(p).stem.split(.)[-1] for p in module_tree[pages]]
has_camel_page(module_tree) ==
    \E i \in 1..Len(module_tree.pages) :
        LET parts == split(PathStem(module_tree.pages[i]), ".")
        IN  parts[Len(parts)] = <<"c","a","m","e","l">>

\* the bare top-level entry, when the test above holds
top_level_entry(module_tree) ==
    IF has_camel_page(module_tree) THEN <<Str(<<"r","e","f","e","r","e","n","c","e","/","c","a","m","e","l">>)>> ELSE <<>>

\* a list of page strings as JSON strings
pages_json(pages) == [i \in 1..Len(pages) |-> Str(pages[i])]

\* mutant of direct_pages: the pages of the node are not sorted
direct_pages_unsorted(submodule) == pages_json(submodule.pages)

\* nav_group[pages].extend(sorted(submodule[pages]))
direct_pages(submodule) == pages_json(sorted(submodule.pages))

\* build_api_docs.py: the pages of one sub-node, flattened into the group
flatten_submodule(display_name, sub_name, sub_data) ==
    IF sub_data.pages # <<>> THEN pages_json(sorted(sub_data.pages)) ELSE <<>>

\* mutant of flatten_submodule_om: sub_group is appended to the group
flatten_submodule_om_nested(display_name, sub_name, sub_data) ==
    IF sub_data.pages # <<>>
    THEN IF Len(sub_data.pages) > 1
         THEN LET sub_display_name == get_module_display_name(sub_name)
              IN  <<Dict(<<Item("group", Str(display_name \o <<" ">> \o sub_display_name)),
                           Item("pages", List(pages_json(sorted(sub_data.pages))))>>)>>
         ELSE pages_json(sorted(sub_data.pages))
    ELSE <<>>

\* organize_modules.py: a sub-node with more than one page builds sub_group, which is
\* then left unused: both branches extend the group with the sorted pages
flatten_submodule_om(display_name, sub_name, sub_data) ==
    IF sub_data.pages # <<>>
    THEN IF Len(sub_data.pages) > 1
         THEN LET sub_display_name == get_module_display_name(sub_name)
                  sub_group == Dict(<<Item("group", Str(display_name \o <<" ">> \o sub_display_name)),
                                      Item("pages", List(pages_json(sorted(sub_data.pages))))>>)
              IN  pages_json(sorted(sub_data.pages))
         ELSE pages_json(sorted(sub_data.pages))
    ELSE <<>>

\* for sub_name, sub_data in sorted(submodule[submodules].items()): ...
RECURSIVE submodule_pages(_, _, _, _)
submodule_pages(script, display_name, submodule, names) ==
    IF names = <<>> THEN <<>>
    ELSE LET sub_name == Head(names)
             sub_data == submodule.submodules[sub_name]
         IN  (IF script = "organize_modules"
              THEN flatten_submodule_om(display_name, sub_name, sub_data)
              ELSE flatten_submodule(display_name, sub_name, sub_data))
             \o submodule_pages(script, display_name, submodule, Tail(names))

\* the group of one module of MODULE_ORDER found in the tree
nav_group(script, module_name, submodule) ==
    LET display_name == get_module_display_name(module_name)
    IN  Dict(<<Item("group", Str(display_name)),
               Item("pages", List(direct_pages(submodule)
                                  \o submodule_pages(script, display_name, submodule,
                                         sorted_keys(DOMAIN submodule.submodules))))>>)

\* mutant of append_group: the group is appended even when it has no page
append_group_always(group) == <<group>>

\* if nav_group[pages]: navigation.append(nav_group)
append_group(group) ==
    IF dict_get(group, "pages", None).e # <<>> THEN <<group>> ELSE <<>>

\* mutant of modules_in_order: every child of the root is rendered
modules_of_tree(script, module_tree) == sorted_keys(DOMAIN module_tree.submodules)

\* mutant of modules_in_order: the modules of the table in alphabetical order
modules_in_alphabet(script, module_tree) ==
    sorted_keys({m \in DOMAIN module_tree.submodules :
                    /\ m \in {MODULE_ORDER[k] : k \in 1..Len(MODULE_ORDER)}})

\* mutant of modules_in_order: organize_modules.py treats camel like any other module
modules_in_order_with_camel(script, module_tree) ==
    SelectSeq(IF script = "organize_modules" THEN MODULE_ORDER_om ELSE MODULE_ORDER,
              LAMBDA module_name : module_name \in DOMAIN module_tree.submodules)

\* the modules the loop over the order table treats, in its order; organize_modules.py
\* skips camel
modules_in_order(script, module_tree) ==
    SelectSeq(IF script = "organize_modules" THEN MODULE_ORDER_om ELSE MODULE_ORDER,
              LAMBDA module_name :
                  /\ ~(script = "organize_modules" /\ module_name = <<"c","a","m","e","l">>)
                  /\ module_name \in DOMAIN module_tree.submodules)

RECURSIVE navigation_groups(_, _, _)
navigation_groups(script, module_tree, names) ==
    IF names = <<>> THEN <<>>
    ELSE append_group(nav_group(script, Head(names), module_tree.submodules[Head(names)]))
         \o navigation_groups(script, module_tree, Tail(names))

\* convert_tree_to_navigation of either script
convert_tree_to_navigation(script, module_tree) ==
    top_level_entry(module_tree)
    \o navigation_groups(script, module_tree, modules_in_order(script, module_tree))

\* ------------------------------------------------------------ config merge
\* the elements a for loop visits: of a list its elements, of a dict its keys, which
\* are str objects and have no .get
for_each(x) ==
    IF isinstance(x, "list") THEN x.e
    ELSE IF isinstance(x, "dict") THEN [i \in 1..Len(x.items) |-> Str(x.items[i].k)]
    ELSE <<>>

\* the loop `for tab in tabs: if tab.get(key) == API Reference: ...; break`: the index
\* of the first element whose `key` is API Reference, 0 when the loop ends without
\* one, -1 when an element before it has no .get (AttributeError)
RECURSIVE first_api_reference(_, _, _)
first_api_reference(elems, key, i) ==
    IF i > Len(elems) THEN 0
    ELSE IF ~isinstance(elems[i], "dict") THEN -1
    ELSE IF str_eq(dict_get(elems[i], key, None), <<"A","P","I"," ","R","e","f","e","r","e","n","c","e">>) THEN i
    ELSE first_api_reference(elems, key, i + 1)

\* mutant of set_tab_groups: the tab is rebuilt from its name and the navigation
set_tab_groups_rebuilt(tab, navigation) ==
    Dict(<<Item("tab", dict_get(tab, "tab", None)), Item("groups", List(navigation))>>)

\* build_api_docs.py: tab[groups] = navigation
set_tab_groups(tab, navigation) == dict_set(tab, "groups", List(navigation))

\* organize_modules.py: mint_data[navigation][i][pages] = navigation
set_group_pages(group, navigation) == dict_set(group, "pages", List(navigation))

\* build_api_docs.py update_mint_json between json.load and the write: the updated
\* mint_data, or the AttributeError raised before anything is written
update_tabs(mint_data, navigation) ==
    IF ~isinstance(mint_data, "dict") THEN [error |-> TRUE, data |-> mint_data]
    ELSE LET nav == dict_get(mint_data, "navigation", Dict(<<>>))
         IN  IF ~isinstance(nav, "dict") THEN [error |-> TRUE, data |-> mint_data]
             ELSE LET tabs == dict_get(nav, "tabs", List(<<>>))
                      i == first_api_reference(for_each(tabs), "tab", 1)
                  IN  IF i = -1 THEN [error |-> TRUE, data |-> mint_data]
                      ELSE IF i = 0 THEN [error |-> FALSE, data |-> mint_data]
                      ELSE [error |-> FALSE,
                            data |-> dict_set(mint_data, "navigation",
                                       dict_set(nav, "tabs",
                                         List([tabs.e EXCEPT ![i] =
                                                 set_tab_groups(@, navigation)])))]

\* organize_modules.py update_mint_json between json.load and the write
update_groups(mint_data, navigation) ==
    IF ~isinstance(mint_data, "dict") THEN [error |-> TRUE, data |-> mint_data]
    ELSE LET nav == dict_get(mint_data, "navigation", List(<<>>))
             i == first_api_reference(for_each(nav), "group", 1)
         IN  IF i = -1 THEN [error |-> TRUE, data |-> mint_data]
             ELSE IF i = 0 THEN [error |-> FALSE, data |-> mint_data]
             ELSE [error |-> FALSE,
                   data |-> dict_set(mint_data, "navigation",
                              List([nav.e EXCEPT ![i] = set_group_pages(@, navigation)]))]

\* update_mint_json of either script: what it returns or raises, the contents of the
\* file after it, and whether it opened the file for writing
update_mint_json(script, exists, mint_data, navigation) ==
    IF ~exists THEN [result |-> "False", data |-> mint_data, written |-> 0]
    ELSE LET r == IF script = "organize_modules"
                  THEN update_groups(mint_data, navigation)
                  ELSE update_tabs(mint_data, navigation)
         IN  IF r.error
             THEN [result |-> "AttributeError", data |-> mint_data, written |-> 0]
             ELSE [result |-> "True", data |-> r.data, written |-> 1]

\* ------------------------------------------------------------------ pruner
\* str.replace(old, "") for a non-empty old: its occurrences are cut out, left to right
RECURSIVE remove_substr(_, _)
remove_substr(s, old) ==
    IF Len(s) < Len(old) THEN s
    ELSE IF SubSeq(s, 1, Len(old)) = old
    THEN remove_substr(SubSeq(s, Len(old) + 1, Len(s)), old)
    ELSE <<Head(s)>> \o remove_substr(Tail(s), old)

\* file_path_to_page_path: every .mdx and every ampersand is removed
file_path_to_page_path(file_path) ==
    remove_substr(remove_substr(file_path, <<".","m","d","x">>), <<"&">>)

\* error_page_paths = [file_path_to_page_path(f) for f in error_files]
error_page_paths_of(error_files) == {file_path_to_page_path(f) : f \in error_files}

\* the truth value of x.get(key) and len(x[key]) > 0 on JSON values
non_empty(x) ==
    IF x.t = "list" THEN x.e # <<>>
    ELSE IF x.t = "dict" THEN x.items # <<>>
    ELSE IF x.t = "str" THEN x.s # <<>>
    ELSE FALSE

\* a test that keeps a group only for its pages
keep_group_for_pages(pages, groups) == non_empty(pages)

\* the test that keeps a group, on what item.get gives for pages and for groups after
\* the pruning: one of them is not empty
keep_group(pages, groups) == non_empty(pages) \/ non_empty(groups)

\* item.get(group, Unknown) as printed in the removal message
group_label(item) ==
    LET name == dict_get(item, "group", Str(<<"U","n","k","n","o","w","n">>))
    IN  IF isinstance(name, "str") THEN name.s ELSE <<"?">>

\* what the pruning of a list yields: the new list, the pages appended to
\* removed_pages and the messages printed, in order
Pruned(list, removed, log) == [list |-> list, removed |-> removed, log |-> log]

\* a bare page path in a list, dropped without being appended to removed_pages
remove_page_unrecorded(item, error_page_paths) ==
    IF item.s \notin error_page_paths
    THEN Pruned(<<item>>, <<>>, <<>>)
    ELSE Pruned(<<>>, <<>>, <<[removed |-> "page", name |-> item.s]>>)

\* a bare page path in a list: kept, or dropped and recorded
remove_page(item, error_page_paths) ==
    IF item.s \notin error_page_paths
    THEN Pruned(<<item>>, <<>>, <<>>)
    ELSE Pruned(<<>>, <<item.s>>, <<[removed |-> "page", name |-> item.s]>>)

RECURSIVE remove_from_groups(_, _), remove_from_items(_, _)

\* a pruning of the strings of a list that leaves the groups in it as they are
RECURSIVE remove_pages_only(_, _)
remove_pages_only(items, error_page_paths) ==
    IF items = <<>> THEN Pruned(<<>>, <<>>, <<>>)
    ELSE LET first == IF isinstance(Head(items), "str")
                      THEN remove_page(Head(items), error_page_paths)
                      ELSE Pruned(<<Head(items)>>, <<>>, <<>>)
             rest == remove_pages_only(Tail(items), error_page_paths)
         IN  Pruned(first.list \o rest.list, first.removed \o rest.removed,
                    first.log \o rest.log)

\* item[key] pruned without descending into the groups it holds
pruned_key_one_level(item, key, error_page_paths) ==
    IF dict_has(item, key) /\ isinstance(dict_get(item, key, None), "list")
    THEN LET r == remove_pages_only(dict_get(item, key, None).e, error_page_paths)
         IN  Pruned(List(r.list), r.removed, r.log)
    ELSE Pruned(dict_get(item, key, None), <<>>, <<>>)

\* item[key] = remove_from_groups(item[key], removed_pages) under `if key in item`:
\* what the call returns
pruned_key(item, key, error_page_paths) ==
    IF dict_has(item, key)
    THEN remove_from_groups(dict_get(item, key, None), error_page_paths)
    ELSE Pruned(None, <<>>, <<>>)

\* the assignment of the pruned list to item[key]
set_pruned_key(item, key, pruned) ==
    IF dict_has(item, key) THEN dict_set(item, key, pruned.list) ELSE item

\* a group dropped without a message
dropped_group_silently(item, removed, log) == Pruned(<<>>, removed, log)

\* a group not appended to new_groups: the message Removed empty group is printed
dropped_group(item, removed, log) ==
    Pruned(<<>>, removed, Append(log, [removed |-> "group", name |-> group_label(item)]))

\* mutant of pruned_group: the pages removed inside a group that is dropped are not
\* passed on to removed_pages
pruned_group_forgetting(item, pages, groups) ==
    IF keep_group(pages.list, groups.list)
    THEN Pruned(<<set_pruned_key(set_pruned_key(item, "pages", pages), "groups", groups)>>,
                pages.removed \o groups.removed, pages.log \o groups.log)
    ELSE dropped_group(item, <<>>, pages.log \o groups.log)

\* the test on the pruned item: appended to new_groups, or dropped
pruned_group(item, pages, groups) ==
    IF keep_group(pages.list, groups.list)
    THEN Pruned(<<set_pruned_key(set_pruned_key(item, "pages", pages), "groups", groups)>>,
                pages.removed \o groups.removed, pages.log \o groups.log)
    ELSE dropped_group(item, pages.removed \o groups.removed, pages.log \o groups.log)

\* a dict in a list: its pages and then its groups are pruned in place, then it is
\* kept only if the test above holds
remove_from_group(item, error_page_paths) ==
    pruned_group(item, pruned_key(item, "pages", error_page_paths),
                 pruned_key(item, "groups", error_page_paths))

\* two steps in a row, the entries of the second put before those of the first
then_prepending(first, rest) ==
    Pruned(rest.list \o first.list, first.removed \o rest.removed, first.log \o rest.log)

\* what two steps in a row did: the lists, the removed pages and the messages joined
then(first, rest) ==
    [list |-> first.list \o rest.list, removed |-> first.removed \o rest.removed,
     log |-> first.log \o rest.log]

\* one iteration of `for item in groups`; an item that is neither a str nor a dict is
\* not appended to new_groups
remove_item(item, error_page_paths) ==
    IF item.t = "str" THEN remove_page(item, error_page_paths)
    ELSE IF item.t = "dict" THEN remove_from_group(item, error_page_paths)
    ELSE Pruned(<<>>, <<>>, <<>>)

\* the loop `for item in groups` when a removal makes it step over the next item
RECURSIVE remove_from_items_skipping(_, _)
remove_from_items_skipping(items, error_page_paths) ==
    IF items = <<>> THEN Pruned(<<>>, <<>>, <<>>)
    ELSE IF Len(items) >= 2 /\ remove_item(Head(items), error_page_paths).list = <<>>
    THEN then(remove_item(Head(items), error_page_paths),
              then(Pruned(<<items[2]>>, <<>>, <<>>),
                   remove_from_items_skipping(SubSeq(items, 3, Len(items)), error_page_paths)))
    ELSE then(remove_item(Head(items), error_page_paths),
              remove_from_items_skipping(Tail(items), error_page_paths))

\* the loop `for item in groups` of remove_from_groups
remove_from_items(items, error_page_paths) ==
    IF items = <<>> THEN Pruned(<<>>, <<>>, <<>>)
    ELSE then(remove_item(Head(items), error_page_paths),
              remove_from_items(Tail(items), error_page_paths))

\* new_groups as the list the call returns
as_list(pruned) ==
    [list |-> [t |-> "list", e |-> pruned.list], removed |-> pruned.removed, log |-> pruned.log]

\* remove_from_groups: a list is pruned, anything else is returned as it is
remove_from_groups(groups, error_page_paths) ==
    IF isinstance(groups, "list")
    THEN as_list(remove_from_items(groups.e, error_page_paths))
    ELSE Pruned(groups, <<>>, <<>>)

\* a tab rebuilt with its pruned groups alone
set_tab_pruned_alone(tab, pruned) ==
    Pruned(<<Dict(<<Item("groups", pruned.list)>>)>>, pruned.removed, pruned.log)

\* tab[groups] = remove_from_groups(tab[groups], removed_pages)
set_tab_pruned(tab, pruned) ==
    Pruned(<<dict_set(tab, "groups", pruned.list)>>, pruned.removed, pruned.log)

\* one iteration of `for tab in tabs`, under `if groups in tab`
remove_from_tab(tab, error_page_paths) ==
    IF isinstance(tab, "dict") /\ dict_has(tab, "groups")
    THEN set_tab_pruned(tab, remove_from_groups(dict_get(tab, "groups", None),
                                                error_page_paths))
    ELSE Pruned(<<tab>>, <<>>, <<>>)

\* the loop `for tab in tabs`
RECURSIVE remove_from_tabs(_, _)
remove_from_tabs(tabs, error_page_paths) ==
    IF tabs = <<>> THEN Pruned(<<>>, <<>>, <<>>)
    ELSE then(remove_from_tab(Head(tabs), error_page_paths),
              remove_from_tabs(Tail(tabs), error_page_paths))

\* docs_data with the pruned tabs in place
set_tabs_pruned(docs_data, pruned) ==
    Pruned(dict_set(docs_data, "navigation",
                    dict_set(dict_get(docs_data, "navigation", None), "tabs",
                             List(pruned.list))),
           pruned.removed, pruned.log)

\* whether docs_data has a list under navigation.tabs
has_tabs(docs_data) ==
    /\ dict_has(docs_data, "navigation")
    /\ isinstance(dict_get(docs_data, "navigation", None), "dict")
    /\ dict_has(dict_get(docs_data, "navigation", None), "tabs")
    /\ isinstance(dict_get(dict_get(docs_data, "navigation", None), "tabs", None), "list")

\* remove_pages_from_navigation: docs_data after the call (as list), the removed_pages
\* it returns and the messages it prints
remove_pages_from_navigation(docs_data, error_files) ==
    IF has_tabs(docs_data)
    THEN set_tabs_pruned(docs_data,
            remove_from_tabs(dict_get(dict_get(docs_data, "navigation", None), "tabs", None).e,
                             error_page_paths_of(error_files)))
    ELSE Pruned(docs_data, <<>>, <<>>)

\* ------------------------------------------------------------------ inputs
\* the .mdx files a run can find in the reference directory
FILES == {
    <<"c","a","m","e","l",".","m","d","x">>,
    <<"c","a","m","e","l",".","b","o","t","s",".","m","d","x">>,
    <<"c","a","m","e","l",".","c","a","m","e","l",".","m","d","x">>,
    <<"c","a","m","e","l",".","b","o","t","s",".","b","o","t","s",".","m","d","x">>,
    <<"c","a","m","e","l",".","b","o","t","s",".","b",".","m","d","x">>,
    <<"c","a","m","e","l",".","b","o","t","s",".","c",".","m","d","x">>,
    <<"c","a","m","e","l",".","b","o","t","s",".","a",".","a",".","m","d","x">>,
    <<"c","a","m","e","l",".","b","o","t","s",".","a",".","b",".","m","d","x">>,
    <<"c","a","m","e","l",".","b","o","t","s",".","d",".","e",".","m","d","x">>,
    <<"c","a","m","e","l",".","b","o","t","s",".","a",".","b",".","c",".","m","d","x">>,
    <<"c","a","m","e","l",".","t","y","p","e","s",".","t",".","m","d","x">>,
    <<"c","a","m","e","l",".","x",".","y",".","m","d","x">>,
    <<"o","t","h","e","r",".","m","d","x">>
}

\* files that give the tree a sub-node named camel, next to catalogued modules with
\* sub-nodes of one page and of several
RENDER_FILES == {
    <<"c","a","m","e","l",".","c","a","m","e","l",".","m","d","x">>,
    <<"c","a","m","e","l",".","c","a","m","e","l",".","x",".","m","d","x">>,
    <<"c","a","m","e","l",".","c","a","m","e","l",".","y",".","z",".","m","d","x">>,
    <<"c","a","m","e","l",".","b","o","t","s",".","b",".","m","d","x">>,
    <<"c","a","m","e","l",".","b","o","t","s",".","a",".","a",".","m","d","x">>,
    <<"c","a","m","e","l",".","b","o","t","s",".","a",".","b",".","m","d","x">>,
    <<"c","a","m","e","l",".","b","o","t","s",".","d",".","e",".","m","d","x">>,
    <<"c","a","m","e","l",".","t","y","p","e","s",".","t",".","m","d","x">>
}

\* the sets of files of the runs that explore the configuration shapes
MERGE_FILE_SETS == {{}, {<<"c","a","m","e","l",".","b","o","t","s",".","b",".","m","d","x">>}, {<<"c","a","m","e","l",".","t","y","p","e","s",".","t",".","m","d","x">>, <<"c","a","m","e","l",".","b","o","t","s",".","m","d","x">>}}

SCRIPTS == {"build_api_docs", "organize_modules"}

\* at most this many tabs (or top-level groups) in the navigation of mint.json
MaxTabs == 2

OLD_PAGES == List(<<Str(<<"r","e","f","e","r","e","n","c","e","/","o","l","d">>)>>)
OLD_GROUPS == List(<<Dict(<<Item("group", Str(<<"O","l","d">>)), Item("pages", OLD_PAGES)>>)>>)

\* tabs of a mint.json in the tabs layout
TABS == {
    Dict(<<Item("tab", Str(<<"D","o","c","u","m","e","n","t","a","t","i","o","n">>)), Item("groups", OLD_GROUPS)>>),
    Dict(<<Item("tab", Str(<<"A","P","I"," ","R","e","f","e","r","e","n","c","e">>)), Item("groups", OLD_GROUPS),
           Item("icon", Str(<<"b","o","o","k">>))>>),
    Dict(<<Item("icon", Str(<<"c","o","d","e">>)), Item("tab", Str(<<"A","P","I"," ","R","e","f","e","r","e","n","c","e">>))>>)
}

\* top-level groups of a mint.json in the flat layout
GROUPS == {
    Dict(<<Item("group", Str(<<"G","e","t"," ","S","t","a","r","t","e","d">>)), Item("pages", OLD_PAGES)>>),
    Dict(<<Item("group", Str(<<"A","P","I"," ","R","e","f","e","r","e","n","c","e">>)), Item("pages", OLD_PAGES),
           Item("icon", Str(<<"b","o","o","k">>))>>),
    Dict(<<Item("icon", Str(<<"c","o","d","e">>)), Item("group", Str(<<"A","P","I"," ","R","e","f","e","r","e","n","c","e">>))>>)
}

SeqsUpTo(S, n) == UNION {[1..k -> S] : k \in 0..n}

mint_json_with(navigation) ==
    Dict(<<Item("name", Str(<<"C","A","M","E","L">>)), Item("navigation", navigation),
           Item("footer", Dict(<<Item("github", Str(<<"c","a","m","e","l","-","a","i">>))>>))>>)

\* the documents mint.json can hold: the tabs layout, the flat layout, no navigation
MINT_JSONS ==
       {mint_json_with(Dict(<<Item("tabs", List(tabs))>>)) : tabs \in SeqsUpTo(TABS, MaxTabs)}
    \cup {mint_json_with(List(groups)) : groups \in SeqsUpTo(GROUPS, MaxTabs)}
    \cup {Dict(<<Item("name", Str(<<"C","A","M","E","L">>))>>)}

\* a script against a mint.json of the layout it expects, holding an API Reference
\* entry after another entry
USUAL_RUNS == {
    [script |-> "build_api_docs", exists |-> TRUE,
     document |-> mint_json_with(Dict(<<Item("tabs", List(<<tabs[1], tabs[2]>>))>>))] :
        tabs \in {s \in TABS \X TABS : ~dict_has(s[1], "icon") /\ dict_has(s[2], "groups")
                                       /\ dict_has(s[2], "icon")}
} \cup {
    [script |-> "organize_modules", exists |-> TRUE,
     document |-> mint_json_with(List(<<groups[1], groups[2]>>))] :
        groups \in {s \in GROUPS \X GROUPS : ~dict_has(s[1], "icon") /\ dict_has(s[2], "pages")
                                             /\ dict_has(s[2], "icon")}
}

\* either script against every document, and against a missing file
MERGE_RUNS ==
    [script : SCRIPTS, exists : {TRUE}, document : MINT_JSONS]
    \cup [script : SCRIPTS, exists : {FALSE}, document : {None}]

\* --------------------------------------------------- inputs of the pruner
\* at most this many entries in the groups of the first tab of docs.json
MaxGroups == 2

PAGE_A == Str(<<"a">>)
PAGE_B == Str(<<"b">>)
PAGE_C == Str(<<"c">>)

\* the files the validator can report; their page paths are a, b and c
ERROR_FILES == {<<"a",".","m","d","x">>, <<"b","&",".","m","d","x">>, <<"c",".","m","d","x">>}

named_group(name, pages) == Dict(<<Item("group", Str(name)), Item("pages", List(pages))>>)

\* a group around page a, and a group around that group as its only entry
ONLY_GROUP == named_group(<<"O","1">>, <<PAGE_A>>)
ONLY_GROUPS == named_group(<<"O","2">>, <<ONLY_GROUP>>)

\* a group of page c and page b, and a group of page c and that group
MIXED_GROUP == named_group(<<"M","1">>, <<PAGE_C, PAGE_B>>)
MIXED_GROUPS == named_group(<<"M","2">>, <<PAGE_C, MIXED_GROUP>>)

\* the entries the groups of the first tab are made of: pages, a group of three pages,
\* a group with pages and groups, a group without a name, a group without pages,
\* and the nested groups
ITEMS ==
    {PAGE_A, PAGE_B,
     named_group(<<"A","B","C">>, <<PAGE_A, PAGE_B, PAGE_C>>),
     Dict(<<Item("group", Str(<<"B","o","t","h">>)), Item("pages", List(<<PAGE_A>>)),
            Item("groups", List(<<named_group(<<"S","u","b">>, <<PAGE_C>>)>>))>>),
     Dict(<<Item("pages", List(<<PAGE_B>>))>>),
     Dict(<<Item("group", Str(<<"A","p","i">>)), Item("openapi", Str(<<"s","p","e","c">>))>>)}
    \cup {ONLY_GROUP, ONLY_GROUPS, MIXED_GROUP, MIXED_GROUPS}

\* the tabs that can follow the first tab
OTHER_TABS == {
    Dict(<<Item("tab", Str(<<"A","P","I">>)),
           Item("groups", List(<<PAGE_A, named_group(<<"A","B","C">>, <<PAGE_A, PAGE_B, PAGE_C>>)>>))>>),
    Dict(<<Item("tab", Str(<<"B","l","o","g">>)), Item("href", Str(<<"b","l","o","g">>))>>)
}

docs_json_with(navigation) ==
    Dict(<<Item("name", Str(<<"C","A","M","E","L">>)), Item("navigation", navigation),
           Item("footer", Dict(<<Item("github", Str(<<"c","a","m","e","l","-","a","i">>))>>))>>)

first_tab(groups) ==
    Dict(<<Item("tab", Str(<<"D","o","c","s">>)), Item("groups", List(groups)),
           Item("icon", Str(<<"b","o","o","k">>))>>)

\* documents docs.json can hold: one tab or two under navigation.tabs, a navigation
\* without tabs, no navigation
docs_jsons_of(group_lists) ==
       {docs_json_with(Dict(<<Item("tabs", List(<<first_tab(groups)>> \o others)),
                               Item("global", Dict(<<>>))>>)) :
            groups \in group_lists,
            others \in {<<>>} \cup {<<tab>> : tab \in OTHER_TABS}}
    \cup {docs_json_with(Dict(<<Item("groups", List(<<PAGE_A>>))>>)),
          Dict(<<Item("name", Str(<<"C","A","M","E","L">>))>>)}

DOCS_JSONS == docs_jsons_of(SeqsUpTo(ITEMS, MaxGroups))

\* the documents of the runs that can be killed: one entry in the groups of the first tab
KILLED_DOCS_JSONS == docs_jsons_of({<<item>> : item \in ITEMS})

\* ------------------------------------------------------------------- state
VARIABLES
    script,            \* which script runs
    mdx_files,         \* the set of files the glob found
    todo,              \* the files the loop of build_module_tree has not visited yet
    visited,           \* the files in the order the loop visited them
    module_tree,       \* the tree under construction
    navigation,        \* the list convert_tree_to_navigation returned
    mint_json_exists,  \* whether the file mint.json exists
    mint_json,         \* the document the file mint.json holds
    result,            \* what update_mint_json returned or raised
    writes,            \* how many times mint.json was opened for writing
    pc,                \* where main() is
    docs_json_exists,  \* whether the file docs.json exists
    docs_json,         \* the document the file docs.json holds
    backup_exists,     \* whether the file docs.json.backup exists
    backup,            \* the document the file docs.json.backup holds
    error_files,       \* the list parse_error_files returned, as a set
    docs_data,         \* docs_data of main() of fix_mintlify_errors.py
    removed_pages,     \* the list remove_pages_from_navigation returned
    log,               \* the removal messages printed, in order
    before_change,     \* history: docs.json as it was before the last run that changed it
    opened,            \* the files opened for writing, in order
    partial_file       \* the files truncated by open and not yet written in full

generator_vars == <<script, mdx_files, todo, visited, module_tree, navigation,
                    mint_json_exists, mint_json, result, writes>>

pruner_vars == <<docs_json_exists, docs_json, backup_exists, backup, error_files,
                 docs_data, removed_pages, log, before_change>>

vars == <<generator_vars, pc, pruner_vars, opened, partial_file>>

\* no pruner has run
PrunerIdle ==
    /\ docs_json_exists = FALSE
    /\ docs_json = None
    /\ backup_exists = FALSE
    /\ backup = None
    /\ error_files = {}
    /\ docs_data = None
    /\ removed_pages = <<>>
    /\ log = <<>>
    /\ before_change = None

InitRun(file_sets, runs) ==
    /\ \E run \in runs :
        /\ script = run.script
        /\ mint_json_exists = run.exists
        /\ mint_json = run.document
    /\ mdx_files \in file_sets
    /\ todo = mdx_files
    /\ visited = <<>>
    /\ module_tree = new_module_dict
    /\ navigation = <<>>
    /\ result = "none"
    /\ writes = 0
    /\ pc = "glob"
    /\ PrunerIdle
    /\ opened = <<>>
    /\ partial_file = {}

\* runs over every set of files, each script against its usual document
Init == InitRun({S \in SUBSET FILES : Cardinality(S) <= MaxFiles}, USUAL_RUNS)

\* runs over every document, with a few sets of files
InitMerge == InitRun(MERGE_FILE_SETS, MERGE_RUNS)

\* a run of fix_mintlify_errors.py against a docs.json, or without one
InitPruneRun(documents) ==
    /\ script = "fix_mintlify_errors"
    /\ mdx_files = {}
    /\ todo = {}
    /\ visited = <<>>
    /\ module_tree = new_module_dict
    /\ navigation = <<>>
    /\ mint_json_exists = FALSE
    /\ mint_json = None
    /\ result = "none"
    /\ writes = 0
    /\ pc = "start"
    /\ \/ docs_json_exists = TRUE /\ docs_json \in documents
       \/ docs_json_exists = FALSE /\ docs_json = None
    /\ backup_exists = FALSE
    /\ backup = None
    /\ error_files = {}
    /\ docs_data = None
    /\ removed_pages = <<>>
    /\ log = <<>>
    /\ before_change = None
    /\ opened = <<>>
    /\ partial_file = {}

InitPrune == InitPruneRun(DOCS_JSONS)

\* main: the glob of the .mdx files; if not mdx_files: return
Glob ==
    /\ pc = "glob"
    /\ pc' = IF mdx_files = {} THEN "done" ELSE "build"
    /\ UNCHANGED <<generator_vars, pruner_vars, opened, partial_file>>

\* one iteration of `for file in mdx_files` in build_module_tree; the glob gives the
\* files in any order
BuildFile ==
    /\ pc = "build"
    /\ \E file \in todo :
        /\ module_tree' = build_module_tree_file(module_tree, file)
        /\ todo' = todo \ {file}
        /\ visited' = Append(visited, file)
    /\ UNCHANGED <<script, mdx_files, navigation, mint_json_exists, mint_json,
                   result, writes, pc, pruner_vars, opened, partial_file>>

\* navigation = convert_tree_to_navigation(module_tree)
Convert ==
    /\ pc = "build"
    /\ todo = {}
    /\ navigation' = convert_tree_to_navigation(script, module_tree)
    /\ pc' = "update"
    /\ UNCHANGED <<script, mdx_files, todo, visited, module_tree,
                   mint_json_exists, mint_json, result, writes,
                   pruner_vars, opened, partial_file>>

\* update_mint_json(mint_json_path, navigation), then the summary main prints; an
\* exception ends the run with a traceback
UpdateMintJson ==
    /\ pc = "update"
    /\ LET r == update_mint_json(script, mint_json_exists, mint_json, navigation)
       IN  /\ mint_json' = r.data
           /\ result' = r.result
           /\ writes' = writes + r.written
           /\ opened' = IF r.written = 1 THEN Append(opened, "mint.json") ELSE opened
           /\ pc' = IF r.result = "AttributeError" THEN "crashed" ELSE "done"
    /\ UNCHANGED <<script, mdx_files, todo, visited, module_tree, navigation,
                   mint_json_exists, pruner_vars, partial_file>>

\* fix_mintlify_errors.py main: without docs.json the run ends; else backup_docs_json
\* copies the text of docs.json to docs.json.backup
BackupDocsJson ==
    /\ pc = "start"
    /\ IF ~docs_json_exists
       THEN /\ pc' = "done"
            /\ UNCHANGED <<backup_exists, backup, opened>>
       ELSE /\ backup_exists' = TRUE
            /\ backup' = docs_json
            /\ opened' = Append(opened, "docs.json.backup")
            /\ pc' = "errors"
    /\ UNCHANGED <<generator_vars, docs_json_exists, docs_json, error_files, docs_data,
                   removed_pages, log, before_change, partial_file>>

\* main, steps 2 and 3: the validator output is read (no file to read, or an empty
\* output, ends the run) and parse_error_files gives the .mdx files it names; none
\* ends the run
ParseErrorFiles ==
    /\ pc = "errors"
    /\ \E output \in {"no file", "empty", "text"} :
        IF output # "text"
        THEN pc' = "done" /\ UNCHANGED error_files
        ELSE \E files \in SUBSET ERROR_FILES :
                /\ error_files' = files
                /\ pc' = IF files = {} THEN "done" ELSE "load"
    /\ UNCHANGED <<generator_vars, docs_json_exists, docs_json, backup_exists, backup,
                   docs_data, removed_pages, log, before_change, opened, partial_file>>

\* main, steps 4 and 5: json.load of docs.json, remove_pages_from_navigation
RemovePages ==
    /\ pc = "load"
    /\ LET r == remove_pages_from_navigation(docs_json, error_files)
       IN  /\ docs_data' = r.list
           /\ removed_pages' = r.removed
           /\ log' = r.log
    /\ pc' = "write"
    /\ UNCHANGED <<generator_vars, docs_json_exists, docs_json, backup_exists, backup,
                   error_files, before_change, opened, partial_file>>

\* main, step 6: docs.json is opened for writing and docs_data dumped into it
WriteDocsJson ==
    /\ pc = "write"
    /\ docs_json' = docs_data
    /\ before_change' = IF docs_data # docs_json THEN docs_json ELSE before_change
    /\ opened' = Append(opened, "docs.json")
    /\ pc' = "done"
    /\ UNCHANGED <<generator_vars, docs_json_exists, backup_exists, backup, error_files,
                   docs_data, removed_pages, log, partial_file>>

Next == Glob \/ BuildFile \/ Convert \/ UpdateMintJson

Spec == Init /\ [][Next]_vars

SpecMerge == InitMerge /\ [][Next]_vars

\* generation runs over trees that have a sub-node named camel
InitRender == InitRun({S \in SUBSET RENDER_FILES : Cardinality(S) <= MaxFiles}, USUAL_RUNS)

SpecRender == InitRender /\ [][Next]_vars

\* at most this many pruning runs write a backup of the same docs.json
MaxRuns == 3

\* how many times docs.json.backup was opened for writing
backups_written == Len(SelectSeq(opened, LAMBDA name : name = "docs.json.backup"))

\* fix_mintlify_errors.py is started again after a run has ended: main() begins anew
\* with the files as the runs before left them
RunAgain ==
    /\ pc = "done"
    /\ script = "fix_mintlify_errors"
    /\ backups_written < MaxRuns
    /\ pc' = "start"
    /\ error_files' = {}
    /\ docs_data' = None
    /\ removed_pages' = <<>>
    /\ log' = <<>>
    /\ UNCHANGED <<generator_vars, docs_json_exists, docs_json, backup_exists, backup,
                   before_change, opened, partial_file>>

\* pruning runs one after another on the same docs.json
NextRepeat == BackupDocsJson \/ ParseErrorFiles \/ RemovePages \/ WriteDocsJson \/ RunAgain

SpecRepeat == InitPruneRun(KILLED_DOCS_JSONS) /\ [][NextRepeat]_vars

NextPrune == BackupDocsJson \/ ParseErrorFiles \/ RemovePages \/ WriteDocsJson

SpecPrune == InitPrune /\ [][NextPrune]_vars

\* ------------------------------------------- runs that can be killed midway
\* the write of a document is open(path, w), which empties the file, and then
\* json.dump, which writes the text piece by piece: while the name of a file is in
\* partial_file the file holds a prefix of the new text, and mint_json or docs_json
\* is the document that was read from it

\* update_mint_json ends before it opens the file: no mint.json, or an AttributeError
UpdateMintJsonFails ==
    /\ update_mint_json(script, mint_json_exists, mint_json, navigation).written = 0
    /\ UpdateMintJson

\* update_mint_json up to `with open(mint_json_path, w)`
OpenMintJson ==
    /\ pc = "update"
    /\ update_mint_json(script, mint_json_exists, mint_json, navigation).written = 1
    /\ partial_file' = partial_file \cup {"mint.json"}
    /\ opened' = Append(opened, "mint.json")
    /\ writes' = writes + 1
    /\ pc' = "dump"
    /\ UNCHANGED <<script, mdx_files, todo, visited, module_tree, navigation,
                   mint_json_exists, mint_json, result, pruner_vars>>

\* json.dump(mint_data, f, indent=2) has written the whole text
DumpMintJson ==
    /\ pc = "dump"
    /\ script # "fix_mintlify_errors"
    /\ LET r == update_mint_json(script, mint_json_exists, mint_json, navigation)
       IN  /\ mint_json' = r.data
           /\ result' = r.result
    /\ partial_file' = partial_file \ {"mint.json"}
    /\ pc' = "done"
    /\ UNCHANGED <<script, mdx_files, todo, visited, module_tree, navigation,
                   mint_json_exists, writes, pruner_vars, opened>>

\* main of fix_mintlify_errors.py, step 6, up to `with open(docs_json_path, w)`
OpenDocsJson ==
    /\ pc = "write"
    /\ partial_file' = partial_file \cup {"docs.json"}
    /\ opened' = Append(opened, "docs.json")
    /\ pc' = "dump"
    /\ UNCHANGED <<generator_vars, pruner_vars>>

\* json.dump(docs_data, f, indent=2, ensure_ascii=False) has written the whole text
DumpDocsJson ==
    /\ pc = "dump"
    /\ script = "fix_mintlify_errors"
    /\ docs_json' = docs_data
    /\ before_change' = IF docs_data # docs_json THEN docs_json ELSE before_change
    /\ partial_file' = partial_file \ {"docs.json"}
    /\ pc' = "done"
    /\ UNCHANGED <<generator_vars, docs_json_exists, backup_exists, backup, error_files,
                   docs_data, removed_pages, log, opened>>

\* the process is killed: nothing more of the run happens
Crash ==
    /\ pc \notin {"done", "crashed", "killed"}
    /\ pc' = "killed"
    /\ UNCHANGED <<generator_vars, pruner_vars, opened, partial_file>>

InitCrash == InitMerge \/ InitPruneRun(KILLED_DOCS_JSONS)

NextCrash ==
    \/ Glob \/ BuildFile \/ Convert
    \/ UpdateMintJsonFails \/ OpenMintJson \/ DumpMintJson
    \/ BackupDocsJson \/ ParseErrorFiles \/ RemovePages
    \/ OpenDocsJson \/ DumpDocsJson
    \/ Crash

SpecCrash == InitCrash /\ [][NextCrash]_vars

\* ------------------------------------------------- vocabulary of the claims
Rendered == pc \in {"update", "done", "crashed"} /\ visited # <<>>

Range(s) == {s[i] : i \in 1..Len(s)}

\* the groups of the navigation, in order, and the page strings of a group
NavGroups == SelectSeq(navigation, LAMBDA entry : isinstance(entry, "dict"))
GroupName(group) == dict_get(group, "group", None).s
GroupEntries(group) == dict_get(group, "pages", None).e
GroupPages(group) == [i \in 1..Len(GroupEntries(group)) |-> GroupEntries(group)[i].s]

\* the dotted segments of the identifier behind a page reference
PageParts(page) == split(SubSeq(page, Len(<<"r","e","f","e","r","e","n","c","e","/">>) + 1, Len(page)), ".")
IsDirectoryPage(page) ==
    LET parts == PageParts(page)
    IN  Len(parts) >= 2 /\ parts[Len(parts)] = parts[Len(parts) - 1]
\* the node holding the page: every segment but the last
NodeOf(page) == SubSeq(PageParts(page), 1, Len(PageParts(page)) - 1)

\* the order table of the running script
OrderTable == IF script = "organize_modules" THEN MODULE_ORDER_om ELSE MODULE_ORDER

\* the tree and the navigation of the same files visited in ascending order
CanonicalTree == build_module_tree(sorted_keys(mdx_files))

\* whether a node or one of its immediate sub-nodes holds a page
HoldsPages(node) ==
    node.pages # <<>> \/ \E s \in DOMAIN node.submodules : node.submodules[s].pages # <<>>

\* ------------------------------------------------------------------ claims
\* C1: the rendered navigation depends only on the set of files, not on the order in
\* which build_module_tree visited them: it equals the navigation of the same set
\* visited in ascending order.
C1_OrderIndependent ==
    Rendered => navigation = convert_tree_to_navigation(script, CanonicalTree)

\* a run whose visiting order left its mark on the tree, and rendered a group
C1_Witness ==
    /\ Rendered
    /\ module_tree # CanonicalTree
    /\ \E i \in 1..Len(NavGroups) : Len(GroupEntries(NavGroups[i])) >= 2

\* C2 as claimed: in every rendered group a directory page comes before every other
\* page of the same node.
C2_DirectoryPageFirst ==
    Rendered =>
        \A g \in 1..Len(NavGroups) :
            LET pages == GroupPages(NavGroups[g])
            IN  \A i, j \in 1..Len(pages) :
                    (i # j /\ IsDirectoryPage(pages[i]) /\ NodeOf(pages[j]) = NodeOf(pages[i]))
                        => i < j

\* C3: every element of the pages of every rendered group is a bare page string; no
\* group is nested in a group.
C3_PagesAreStrings ==
    Rendered =>
        \A g \in 1..Len(NavGroups) :
            \A i \in 1..Len(GroupEntries(NavGroups[g])) :
                isinstance(GroupEntries(NavGroups[g])[i], "str")

\* a sub-node with more than one page, flattened into a rendered group by the script
\* that builds a sub-group for it
C3_Witness ==
    /\ Rendered
    /\ script = "organize_modules"
    /\ \E m \in DOMAIN module_tree.submodules :
        \E s \in DOMAIN module_tree.submodules[m].submodules :
            LET pages == module_tree.submodules[m].submodules[s].pages
            IN  /\ Len(pages) > 1
                /\ \E g \in 1..Len(NavGroups) :
                       Range(pages) \subseteq Range(GroupPages(NavGroups[g]))

\* C4 as claimed: the whole page list of every rendered group is in ascending order of
\* the page strings.
C4_GroupSorted ==
    Rendered =>
        \A g \in 1..Len(NavGroups) :
            LET pages == GroupPages(NavGroups[g])
            IN  \A i, j \in 1..Len(pages) : i < j => StrLess(pages[i], pages[j])

\* C4 as amended: in a rendered group the pages of the category node come first, in
\* ascending order; the pages of its sub-nodes follow, sub-node by sub-node in
\* ascending order of the sub-node name, the pages of one sub-node in ascending order.
C4_SegmentsSorted ==
    Rendered =>
        \A g \in 1..Len(NavGroups) :
            LET pages == GroupPages(NavGroups[g])
                own(p) == Len(NodeOf(p)) = 2
                sub(p) == NodeOf(p)[3]
            IN  \A i, j \in 1..Len(pages) :
                    i < j =>
                        \/ own(pages[i]) /\ ~own(pages[j])
                        \/ own(pages[i]) /\ own(pages[j]) /\ StrLess(pages[i], pages[j])
                        \/ /\ ~own(pages[i]) /\ ~own(pages[j])
                           /\ \/ StrLess(sub(pages[i]), sub(pages[j]))
                              \/ /\ sub(pages[i]) = sub(pages[j])
                                 /\ StrLess(pages[i], pages[j])

\* a group whose list as a whole is not ascending: a page of the category node is
\* greater than the page of a sub-node that follows it
C4_Witness ==
    /\ Rendered
    /\ \E g \in 1..Len(NavGroups) :
        LET pages == GroupPages(NavGroups[g])
        IN  \E i, j \in 1..Len(pages) :
                i < j /\ StrLess(pages[j], pages[i]) /\ Len(NodeOf(pages[i])) = 2

\* C5: a child of the root whose name is not in the order table gives no group, and no
\* page under it is in the navigation: every group is the group of a child that is in
\* the table and holds only pages under that child.
C5_UncataloguedDropped ==
    Rendered =>
        /\ \A g \in 1..Len(NavGroups) :
               \E m \in Range(OrderTable) \cap DOMAIN module_tree.submodules :
                   /\ GroupName(NavGroups[g]) = get_module_display_name(m)
                   /\ \A page \in Range(GroupPages(NavGroups[g])) :
                          startswith(page, <<"r","e","f","e","r","e","n","c","e","/","c","a","m","e","l",".">> \o m \o <<".">>)
        /\ \A m \in DOMAIN module_tree.submodules \ Range(OrderTable) :
               \A e \in 1..Len(navigation) :
                   LET pages == IF isinstance(navigation[e], "dict")
                                THEN Range(GroupPages(navigation[e]))
                                ELSE {navigation[e].s}
                   IN  \A page \in pages :
                           ~startswith(page, <<"r","e","f","e","r","e","n","c","e","/","c","a","m","e","l",".">> \o m \o <<".">>)

\* a tree with a child outside the table that holds a page, rendered next to a group
C5_Witness ==
    /\ Rendered
    /\ NavGroups # <<>>
    /\ \E m \in DOMAIN module_tree.submodules \ Range(OrderTable) :
           module_tree.submodules[m].pages # <<>>

\* C6: every rendered group has at least one page, and a module of the order table
\* that is not in the tree, or whose node and immediate sub-nodes hold no page, has
\* no group.
C6_NoEmptyGroup ==
    Rendered =>
        /\ \A g \in 1..Len(NavGroups) : GroupEntries(NavGroups[g]) # <<>>
        /\ \A m \in Range(OrderTable) \cap DOMAIN MODULE_NAME_DISPLAY :
               (m \notin DOMAIN module_tree.submodules
                    \/ ~HoldsPages(module_tree.submodules[m]))
                   => \A g \in 1..Len(NavGroups) :
                          GroupName(NavGroups[g]) # MODULE_NAME_DISPLAY[m]

\* a module of the table is in the tree, with pages only deeper than its sub-nodes
C6_Witness ==
    /\ Rendered
    /\ \E m \in Range(OrderTable) \cap DOMAIN module_tree.submodules :
           /\ ~HoldsPages(module_tree.submodules[m])
           /\ \E s \in DOMAIN module_tree.submodules[m].submodules :
                  DOMAIN module_tree.submodules[m].submodules[s].submodules # {}

\* C7 as claimed: the bare entry reference/camel is emitted exactly when the root node
\* has a page whose last dotted segment is camel, and then it is the first entry.
C7_TopLevelEntry ==
    Rendered =>
        LET bare == {e \in 1..Len(navigation) : isinstance(navigation[e], "str")}
            root_has_camel ==
                \E i \in 1..Len(module_tree.pages) :
                    LET parts == PageParts(module_tree.pages[i])
                    IN  parts[Len(parts)] = <<"c","a","m","e","l">>
        IN  /\ (bare # {}) <=> root_has_camel
            /\ bare \subseteq {1}
            /\ \A e \in bare : navigation[e].s = <<"r","e","f","e","r","e","n","c","e","/","c","a","m","e","l">>

\* C8: the groups come in the relative order of their modules in the order table, at
\* most one group per module, each named by the display name of its module and
\* holding the pages under that module.
C8_GroupOrder ==
    Rendered =>
        LET at(g) == {k \in 1..Len(OrderTable) :
                        /\ OrderTable[k] \in DOMAIN MODULE_NAME_DISPLAY
                        /\ MODULE_NAME_DISPLAY[OrderTable[k]] = GroupName(NavGroups[g])
                        /\ \A page \in Range(GroupPages(NavGroups[g])) :
                               startswith(page, <<"r","e","f","e","r","e","n","c","e","/","c","a","m","e","l",".">> \o OrderTable[k] \o <<".">>)}
        IN  /\ \A g \in 1..Len(NavGroups) : at(g) # {}
            /\ \A g, h \in 1..Len(NavGroups) :
                   g < h => \A k \in at(g) : \A l \in at(h) : k < l

\* two groups rendered, of modules that the table orders against the alphabet
C8_Witness ==
    /\ Rendered
    /\ Len(NavGroups) >= 2
    /\ StrLess(GroupName(NavGroups[2]), GroupName(NavGroups[1]))

\* ---------------------------------------------------- claims on the merge
\* the entries among which the script looks for API Reference, the key naming an
\* entry and the key of the list the script replaces
MergeEntries(doc) ==
    IF ~(isinstance(doc, "dict") /\ dict_has(doc, "navigation")) THEN <<>>
    ELSE LET nav == dict_get(doc, "navigation", None)
         IN  IF script = "organize_modules"
             THEN IF isinstance(nav, "list") THEN nav.e ELSE <<>>
             ELSE IF isinstance(nav, "dict") /\ dict_has(nav, "tabs")
                     /\ isinstance(dict_get(nav, "tabs", None), "list")
                  THEN dict_get(nav, "tabs", None).e ELSE <<>>
NameKey == IF script = "organize_modules" THEN "group" ELSE "tab"
ListKey == IF script = "organize_modules" THEN "pages" ELSE "groups"

IsApiReference(entry) ==
    isinstance(entry, "dict") /\ str_eq(dict_get(entry, NameKey, None), <<"A","P","I"," ","R","e","f","e","r","e","n","c","e">>)

\* the index of the first entry named API Reference, 0 when there is none
Target(doc) ==
    LET named == {i \in 1..Len(MergeEntries(doc)) : IsApiReference(MergeEntries(doc)[i])}
    IN  IF named = {} THEN 0 ELSE CHOOSE i \in named : \A j \in named : i <= j

\* the document without the list of its first API Reference entry
Outside(doc) ==
    LET i == Target(doc)
        entries == MergeEntries(doc)
        kept == [entries EXCEPT ![i] =
                    Dict(SelectSeq(@.items, LAMBDA item : item.k # ListKey))]
        nav == dict_get(doc, "navigation", None)
    IN  IF i = 0 THEN doc
        ELSE dict_set(doc, "navigation",
                      IF script = "organize_modules" THEN List(kept)
                      ELSE dict_set(nav, "tabs", List(kept)))

\* C9 as claimed: when the document has no API Reference entry, update_mint_json
\* fails with an error and the file is not written.
C9_MissingTargetFails ==
    [][(pc = "update" /\ mint_json_exists /\ Target(mint_json) = 0)
          => (result' \notin {"True", "False"} /\ writes' = writes)]_vars

\* C10: update_mint_json changes nothing of the document but the list of the first
\* entry named API Reference: the rest has the same values in the same key order.
C10_MergeFrame ==
    [][pc = "update"
          => (mint_json_exists' = mint_json_exists
              /\ Outside(mint_json') = Outside(mint_json))]_vars

\* the file was rewritten with the rendered navigation in its first API Reference
\* entry, which has other fields, and a later entry of that name kept its list
C10_Witness ==
    /\ pc = "done"
    /\ result = "True"
    /\ navigation # <<>>
    /\ Target(mint_json) # 0
    /\ LET entries == MergeEntries(mint_json)
           i == Target(mint_json)
       IN  /\ dict_get(entries[i], ListKey, None) = List(navigation)
           /\ dict_has(entries[i], "icon")
           /\ \E j \in (i + 1)..Len(entries) :
                  /\ IsApiReference(entries[j])
                  /\ dict_get(entries[j], ListKey, None) # List(navigation)
                  /\ dict_has(entries[j], ListKey)

\* ------------------------------------------------------ claims on the pruner
\* the tabs of a document, none when it has no navigation.tabs
Tabs(doc) ==
    IF has_tabs(doc) THEN dict_get(dict_get(doc, "navigation", None), "tabs", None).e
    ELSE <<>>

\* the entries of the groups list of a tab, none when it has no groups
TabGroups(tab) == dict_get(tab, "groups", List(<<>>)).e

\* a group's pages and its groups, none when the key is missing
PagesOf(group) == dict_get(group, "pages", List(<<>>))
GroupsOf(group) == dict_get(group, "groups", List(<<>>))

\* the bare page strings under a value, depth first, a group's pages before its groups
RECURSIVE BarePages(_)
BarePages(x) ==
    IF isinstance(x, "str") THEN <<x.s>>
    ELSE IF isinstance(x, "list")
    THEN IF x.e = <<>> THEN <<>>
         ELSE BarePages(Head(x.e)) \o BarePages(List(Tail(x.e)))
    ELSE IF isinstance(x, "dict") THEN BarePages(PagesOf(x)) \o BarePages(GroupsOf(x))
    ELSE <<>>

\* the bare page strings of the navigation of a document, tab after tab
NavPages(doc) == BarePages(List([i \in 1..Len(Tabs(doc)) |-> List(TabGroups(Tabs(doc)[i]))]))

\* the page paths of the broken files of the run
Broken == error_page_paths_of(error_files)

IsBroken(s) == s \in Broken
IsSound(s) == s \notin Broken

\* the pruner has pruned docs_data and not yet written it: docs_json is the document
\* before the pruning
Pruning == pc = "write"

\* C11: the bare page strings the pruner drops, in a tab's groups or in a group's pages at any
\* depth, are those equal to the page path of a broken file, and just these are
\* appended, in order, to the removed list it returns; the others stay.
C11_BarePageDropped ==
    Pruning =>
        /\ removed_pages = SelectSeq(NavPages(docs_json), IsBroken)
        /\ NavPages(docs_data) = SelectSeq(NavPages(docs_json), IsSound)

\* a broken page directly in the groups of a tab and one in the pages of a group
\* were dropped and recorded, and a sound page stayed
C11_Witness ==
    /\ Pruning
    /\ Len(removed_pages) >= 2
    /\ NavPages(docs_data) # <<>>
    /\ \E tab \in Range(Tabs(docs_json)) :
          /\ \E entry \in Range(TabGroups(tab)) :
                isinstance(entry, "str") /\ IsBroken(entry.s)
          /\ \E entry \in Range(TabGroups(tab)) :
                /\ isinstance(entry, "dict")
                /\ \E page \in Range(PagesOf(entry).e) :
                      isinstance(page, "str") /\ IsBroken(page.s)

\* the groups under a value, at any depth
RECURSIVE AllGroups(_)
AllGroups(x) ==
    IF isinstance(x, "list")
    THEN UNION {AllGroups(x.e[i]) : i \in 1..Len(x.e)}
    ELSE IF isinstance(x, "dict")
    THEN {x} \cup AllGroups(PagesOf(x)) \cup AllGroups(GroupsOf(x))
    ELSE {}

\* the groups of the navigation of a document
NavGroupsOf(doc) == UNION {AllGroups(List(TabGroups(tab))) : tab \in Range(Tabs(doc))}

IsOwnField(item) == item.k \notin {"pages", "groups"}

\* what identifies a group before and after the pruning: its fields other than the
\* lists the pruner rewrites (no two different groups of the documents share them)
GroupFields(group) == SelectSeq(group.items, IsOwnField)

\* the group is still in the navigation after the pruning
Present(group) ==
    \E after \in NavGroupsOf(docs_data) : GroupFields(after) = GroupFields(group)

\* the pruned page list of the entry is not empty: a page stays when it is not broken,
\* a group when its own pruned page list is not empty
RECURSIVE KeepsPage(_)
KeepsPage(x) ==
    IF isinstance(x, "str") THEN IsSound(x.s)
    ELSE \E y \in Range(PagesOf(x).e) : KeepsPage(y)

\* the pruned pages or the pruned groups of the entry are not empty
RECURSIVE KeepsEntry(_)
KeepsEntry(x) ==
    IF isinstance(x, "str") THEN IsSound(x.s)
    ELSE \E y \in Range(PagesOf(x).e) \cup Range(GroupsOf(x).e) : KeepsEntry(y)

\* C12 as claimed: a group is dropped if and only if its page list is empty after the
\* pruning.
C12_DroppedIffNoPages ==
    Pruning => \A group \in NavGroupsOf(docs_json) : ~Present(group) <=> ~KeepsPage(group)

\* C12: a group is dropped if and only if, after the pruning, it has neither a non-empty
\* pages list nor a non-empty groups list; a group that keeps a page is never dropped.
C12_DroppedIffEmpty ==
    Pruning =>
        \A group \in NavGroupsOf(docs_json) :
            /\ ~Present(group) <=> ~KeepsEntry(group)
            /\ KeepsPage(group) => Present(group)

\* one group lost some of its pages and stayed, one lost all its pages and was
\* dropped, and one lost all its pages and stayed for its groups
C12_Witness ==
    /\ Pruning
    /\ \E group \in NavGroupsOf(docs_json) :
          /\ Present(group)
          /\ \E page \in Range(PagesOf(group).e) : isinstance(page, "str") /\ IsBroken(page.s)
          /\ KeepsPage(group)
    /\ \E group \in NavGroupsOf(docs_json) :
          /\ ~Present(group)
          /\ PagesOf(group).e # <<>>
    /\ \E group \in NavGroupsOf(docs_json) :
          /\ Present(group)
          /\ PagesOf(group).e # <<>>
          /\ ~KeepsPage(group)

\* what identifies an entry of a list: the path of a page, the own fields of a group
EntryKey(x) == IF isinstance(x, "str") THEN <<"page", x.s>> ELSE <<"group", GroupFields(x)>>

EntryKeys(list) == [i \in 1..Len(list.e) |-> EntryKey(list.e[i])]

\* the entries of the list after are the surviving entries of the list before, in the
\* order they had
SameOrder(before, after) ==
    EntryKeys(after) = SelectSeq(EntryKeys(before), LAMBDA k : k \in Range(EntryKeys(after)))

\* C13: in the groups of every tab and in the pages and the groups of every group that
\* stays, at any depth, the entries that survive the pruning are in the order they had
\* before it.
C13_OrderPreserved ==
    Pruning =>
        /\ Len(Tabs(docs_data)) = Len(Tabs(docs_json))
        /\ \A i \in 1..Len(Tabs(docs_json)) :
              SameOrder(List(TabGroups(Tabs(docs_json)[i])), List(TabGroups(Tabs(docs_data)[i])))
        /\ \A group \in NavGroupsOf(docs_json) :
              \A after \in NavGroupsOf(docs_data) :
                  GroupFields(after) = GroupFields(group) =>
                      /\ SameOrder(PagesOf(group), PagesOf(after))
                      /\ SameOrder(GroupsOf(group), GroupsOf(after))

\* a page between two others was dropped from the pages of a group, and an entry
\* before another was dropped from the groups of a tab
C13_Witness ==
    /\ Pruning
    /\ \E group \in NavGroupsOf(docs_json) :
          \E after \in NavGroupsOf(docs_data) :
              /\ GroupFields(after) = GroupFields(group)
              /\ Len(PagesOf(group).e) = 3
              /\ PagesOf(after).e = <<PagesOf(group).e[1], PagesOf(group).e[3]>>
    /\ \E i \in 1..Len(Tabs(docs_json)) :
          LET tab == Tabs(docs_json)[i]
              after == Tabs(docs_data)[i]
          IN  /\ Len(TabGroups(tab)) = 2
              /\ TabGroups(tab)[1] # TabGroups(tab)[2]
              /\ Len(TabGroups(after)) = 1
              /\ EntryKey(TabGroups(after)[1]) = EntryKey(TabGroups(tab)[2])

\* C14: remove_pages_from_navigation applied again, with the same broken files, to the
\* document it has pruned leaves the document as it is and returns an empty removed list.
C14_Idempotent ==
    Pruning =>
        /\ remove_pages_from_navigation(docs_data, error_files).list = docs_data
        /\ remove_pages_from_navigation(docs_data, error_files).removed = <<>>

\* the first pruning dropped pages and a group
C14_Witness ==
    /\ Pruning
    /\ docs_data # docs_json
    /\ removed_pages # <<>>
    /\ \E i \in 1..Len(log) : log[i].removed = "group"
    /\ NavPages(docs_data) # <<>>

\* the group has pages and every page under them, at any depth, is broken
EveryPageBroken(group) == PagesOf(group).e # <<>> /\ ~KeepsPage(group)

\* the name the removal message gives a group: its group field, Unknown without one
LoggedName(group) == dict_get(group, "group", Str(<<"U","n","k","n","o","w","n">>)).s

\* the removal messages of the run name the group
Logged(group) ==
    \E i \in 1..Len(log) : log[i] = [removed |-> "group", name |-> LoggedName(group)]

\* C15 as claimed: a group whose every page is broken is removed from the navigation and
\* its name is in the removal log.
C15_BrokenGroupRemoved ==
    Pruning =>
        \A group \in NavGroupsOf(docs_json) :
            EveryPageBroken(group) => ~Present(group) /\ Logged(group)

\* C15: a group whose every page is broken, and whose groups list, if it has one, is
\* left empty by the pruning, is removed from the navigation, and the removal log has
\* its name, or Unknown when it has no name.
C15_EmptiedGroupRemoved ==
    Pruning =>
        \A group \in NavGroupsOf(docs_json) :
            (EveryPageBroken(group) /\ ~KeepsEntry(group)) => ~Present(group) /\ Logged(group)

\* a named group had all its pages broken, was removed and logged, and a group whose
\* pages were all broken stayed for its groups
C15_Witness ==
    /\ Pruning
    /\ \E group \in NavGroupsOf(docs_json) :
          /\ EveryPageBroken(group) /\ ~KeepsEntry(group)
          /\ dict_has(group, "group")
          /\ ~Present(group) /\ Logged(group)
    /\ \E group \in NavGroupsOf(docs_json) : EveryPageBroken(group) /\ Present(group)

\* how many groups are nested at an entry: none at a page
RECURSIVE Depth(_)
Depth(x) ==
    IF isinstance(x, "dict")
    THEN LET below == {Depth(y) : y \in Range(PagesOf(x).e) \cup Range(GroupsOf(x).e)} \cup {0}
         IN  1 + CHOOSE d \in below : \A other \in below : other <= d
    ELSE 0

\* the entries of the groups lists of the tabs of a document
TopEntries(doc) == UNION {Range(TabGroups(tab)) : tab \in Range(Tabs(doc))}

\* C16: whatever the nesting, after the pruning no broken page is left at any depth and
\* each one that was there is in the removed list, no group at any depth is left with
\* neither pages nor groups, and a group whose whole content was dropped is dropped
\* with it; the pruning of every document comes to an end.
C16_AnyDepth ==
    /\ Pruning =>
        /\ \A page \in Range(NavPages(docs_data)) : IsSound(page)
        /\ \A page \in Range(NavPages(docs_json)) :
              IsBroken(page) => page \in Range(removed_pages)
        /\ \A group \in NavGroupsOf(docs_data) :
              PagesOf(group).e # <<>> \/ GroupsOf(group).e # <<>>
        /\ \A group \in NavGroupsOf(docs_json) : ~KeepsEntry(group) => ~Present(group)
    /\ pc = "load" => isinstance(remove_pages_from_navigation(docs_json, error_files).list, "dict")

\* under two groups a page was removed from a group that stayed, and a chain of two
\* groups was dropped with its only page
C16_Witness ==
    /\ Pruning
    /\ \E entry \in TopEntries(docs_json) :
          /\ Depth(entry) >= 2
          /\ ~KeepsEntry(entry)
          /\ ~Present(entry)
          /\ BarePages(entry) # <<>>
    /\ \E entry \in TopEntries(docs_json) :
          \E after \in TopEntries(docs_data) :
              /\ Depth(entry) >= 2
              /\ EntryKey(after) = EntryKey(entry)
              /\ BarePages(after) # BarePages(entry)
              /\ Depth(after) = Depth(entry)

\* ------------------------------------------- claims on the written files
IsConfiguration(file) == file \in {"mint.json", "docs.json"}

BackupOf(file) == IF file = "mint.json" THEN "mint.json.backup" ELSE "docs.json.backup"

\* C17 as claimed: whenever a run opens the configuration file for writing, it has
\* written its backup before, and the backup of a pruning run holds the document as
\* it was before the pruning.
C17_BackupBeforeOverwrite ==
    /\ \A i \in 1..Len(opened) :
          IsConfiguration(opened[i]) => \E j \in 1..(i - 1) : opened[j] = BackupOf(opened[i])
    /\ Pruning => backup_exists /\ backup = docs_json

\* C18 as claimed: when the process is killed, no configuration file is left with a part
\* of the new text only.
C18_AtomicWrite == pc = "killed" => partial_file = {}

\* C19 as claimed: a generation run that found no .mdx file or rendered an empty
\* navigation, and a pruning run that found no broken file, end without having opened
\* the configuration file for writing.
C19_NothingToWrite ==
    pc = "done" =>
        /\ (script # "fix_mintlify_errors" /\ (mdx_files = {} \/ navigation = <<>>))
              => writes = 0
        /\ (script = "fix_mintlify_errors" /\ error_files = {})
              => "docs.json" \notin Range(opened)

\* the tabs the pruning changed
ChangedTabs == {i \in 1..Len(Tabs(docs_json)) : Tabs(docs_data)[i] # Tabs(docs_json)[i]}

\* a document without the groups lists of its tabs
WithoutTabGroups(doc) ==
    IF has_tabs(doc)
    THEN dict_set(doc, "navigation",
            dict_set(dict_get(doc, "navigation", None), "tabs",
                List([i \in 1..Len(Tabs(doc)) |->
                        IF dict_has(Tabs(doc)[i], "groups")
                        THEN dict_set(Tabs(doc)[i], "groups", None)
                        ELSE Tabs(doc)[i]])))
    ELSE doc

RECURSIVE AllNodes(_)
AllNodes(node) ==
    {node} \cup UNION {AllNodes(node.submodules[s]) : s \in DOMAIN node.submodules}

\* the page reference build_module_tree makes of a file
ReferenceOf(file) == <<"r","e","f","e","r","e","n","c","e","/">> \o PathStem(file)

\* C21: whatever files build_module_tree has processed, in whatever order, a directory
\* page in the pages of a node is at index 0 of that list.
C21_DirectoryPageAtIndexZero ==
    \A node \in AllNodes(module_tree) :
        \A i \in 1..Len(node.pages) : IsDirectoryPage(node.pages[i]) => i = 1

\* every file was processed, the directory page of a node last of all, and it stands
\* before the pages the node already had
C21_Witness ==
    /\ pc = "build"
    /\ todo = {}
    /\ \E node \in AllNodes(module_tree) :
          /\ Len(node.pages) >= 2
          /\ IsDirectoryPage(node.pages[1])
          /\ node.pages[1] = ReferenceOf(visited[Len(visited)])

\* C22 as claimed: a file that build_module_tree has processed is skipped only when the
\* first segment of its identifier is not camel; the identifier camel itself is in the
\* pages of the root node.
C22_OnlyForeignSkipped ==
    \A i \in 1..Len(visited) :
        LET parts == split(PathStem(visited[i]), ".")
        IN  parts[1] = <<"c","a","m","e","l">> =>
                /\ \E node \in AllNodes(module_tree) :
                       ReferenceOf(visited[i]) \in Range(node.pages)
                /\ Len(parts) = 1 => ReferenceOf(visited[i]) \in Range(module_tree.pages)

\* C23: the two renderers agree on every module tree, the tree of a run with a sub-node
\* named camel included: convert_tree_to_navigation of organize_modules.py and of
\* build_api_docs.py return the same list, and the navigation a run rendered is the
\* list either of them returns.
C23_RenderersEquivalent ==
    /\ convert_tree_to_navigation("organize_modules", module_tree)
           = convert_tree_to_navigation("build_api_docs", module_tree)
    /\ Rendered =>
           \A other \in SCRIPTS : navigation = convert_tree_to_navigation(other, module_tree)

\* a rendered tree with a sub-node named camel that holds a page, and a sub-node of a
\* catalogued module with more than one page
C23_Witness ==
    /\ Rendered
    /\ NavGroups # <<>>
    /\ <<"c","a","m","e","l">> \in DOMAIN module_tree.submodules
    /\ module_tree.submodules[<<"c","a","m","e","l">>].pages # <<>>
    /\ \E m \in Range(MODULE_ORDER) \cap DOMAIN module_tree.submodules :
          \E s \in DOMAIN module_tree.submodules[m].submodules :
              Len(module_tree.submodules[m].submodules[s].pages) > 1

\* the page strings of the navigation: the bare entries and the pages of the groups
NavigationPages ==
    UNION {IF isinstance(navigation[e], "dict")
           THEN Range(GroupPages(navigation[e]))
           ELSE {navigation[e].s} : e \in 1..Len(navigation)}

\* C24 as claimed: every page reference of the rendered navigation, bare or in a group,
\* is reference/ followed by the identifier of one of the files given to
\* build_module_tree.
C24_OnlySuppliedPages ==
    Rendered => NavigationPages \subseteq {ReferenceOf(file) : file \in mdx_files}

\* the places of a page in the groups of the navigation
PlacesInGroups(page) ==
    UNION {{<<g, i>> : i \in {i \in 1..Len(GroupEntries(NavGroups[g])) :
                                 GroupPages(NavGroups[g])[i] = page}} :
           g \in 1..Len(NavGroups)}

BagOfSeq(s) == [x \in Range(s) |-> Cardinality({i \in 1..Len(s) : s[i] = x})]

\* s is t with some of its elements left out
RECURSIVE IsSubsequence(_, _)
IsSubsequence(s, t) ==
    IF s = <<>> THEN TRUE
    ELSE IF t = <<>> THEN FALSE
    ELSE IF Head(s) = Head(t) THEN IsSubsequence(Tail(s), Tail(t))
    ELSE IsSubsequence(s, Tail(t))

\* C27: the page strings left in the groups of the tabs after the pruning, together with
\* the removed list, are as a multiset the page strings the groups of the tabs held
\* before, and the removed list is in the depth-first order of the document.
C27_PagesConserved ==
    Pruning =>
        /\ BagOfSeq(NavPages(docs_data)) (+) BagOfSeq(removed_pages)
               = BagOfSeq(NavPages(docs_json))
        /\ IsSubsequence(removed_pages, NavPages(docs_json))

\* a page that the navigation held twice was removed twice, another page was removed
\* with it, a group was dropped for the pages it lost, and a page stayed
C27_Witness ==
    /\ Pruning
    /\ \E page \in Range(removed_pages) : CopiesIn(page, BagOfSeq(removed_pages)) >= 2
    /\ Cardinality(Range(removed_pages)) >= 2
    /\ \E i \in 1..Len(log) : log[i].removed = "group"
    /\ NavPages(docs_data) # <<>>

\* ------------------------------------------------ claims on repeated runs
\* C26 as claimed: after any sequence of pruning runs, once a run has changed docs.json,
\* docs.json.backup holds the document docs.json held immediately before the most
\* recent run that changed it.
C26_BackupRollsBackLastChange ==
    (pc = "done" /\ before_change # None) => (backup_exists /\ backup = before_change)
====
